---- MODULE Spec2Model ----
(***************************************************************************)
(* Joint taxonomy, joint parameter tables, URDF rewrite, PD control law    *)
(* and calibration driver of the sim repository.                           *)
(*                                                                         *)
(* Real numbers of the source are kept as integers in thousandths          *)
(* (-1.27 is -1270, 0.3 is 300); sums and comparisons are exact in that     *)
(* scale.  Strings are TLA+ strings; `key in name` and the sorting done by  *)
(* dir() are computed character by character.                              *)
(***************************************************************************)
EXTENDS Integers, Sequences, FiniteSets, TLC

(***************************************************************************)
(* Strings                                                                 *)
(***************************************************************************)

\* Python `key in s` for two strings: key occurs as a contiguous substring.
Contains(key, s) ==
    \E i \in 1..(Len(s) - Len(key) + 1) : SubSeq(s, i, i + Len(key) - 1) = key

\* Python s.startswith(p).
StartsWith(s, p) == Len(s) >= Len(p) /\ SubSeq(s, 1, Len(p)) = p

\* The characters of attribute names, in code-point order ('_' is 95, 'a' is 97).
CodePoints == "_abcdefghijklmnopqrstuvwxyz"

Ord(c) == CHOOSE i \in 1..Len(CodePoints) : SubSeq(CodePoints, i, i) = c

\* Python a < b for two strings: lexicographic by code point, a proper prefix first.
RECURSIVE StrLess(_, _)
StrLess(a, b) ==
    IF Len(b) = 0 THEN FALSE
    ELSE IF Len(a) = 0 THEN TRUE
    ELSE LET ca == Ord(SubSeq(a, 1, 1))
             cb == Ord(SubSeq(b, 1, 1))
         IN  IF ca # cb THEN ca < cb
             ELSE StrLess(SubSeq(a, 2, Len(a)), SubSeq(b, 2, Len(b)))

\* sorted(S) for a finite set of strings.
RECURSIVE SortedStrings(_)
SortedStrings(S) ==
    IF S = {} THEN << >>
    ELSE LET m == CHOOSE x \in S : \A y \in S \ {x} : StrLess(x, y)
         IN  <<m>> \o SortedStrings(S \ {m})

RECURSIVE Flatten(_)
Flatten(ss) == IF ss = << >> THEN << >> ELSE Head(ss) \o Flatten(Tail(ss))

Range(s) == { s[i] : i \in 1..Len(s) }

(***************************************************************************)
(* Python numbers.  A number is its type and its value in thousandths:     *)
(* the int 150 is PyInt(150), the float -1.27 is PyFloat(-1270).           *)
(***************************************************************************)

PyInt(n)   == [type |-> "int", m |-> n * 1000]
PyFloat(t) == [type |-> "float", m |-> t]

Digit(k) == SubSeq("0123456789", k + 1, k + 1)

\* The decimal digits of a natural number.
RECURSIVE Digits(_)
Digits(n) == IF n < 10 THEN Digit(n) ELSE Digits(n \div 10) \o Digit(n % 10)

\* The fraction digits of t thousandths (0 <= t < 1000) in the shortest form
\* that reads back as the same number: "0" for 0, "27" for 270, "03" for 30.
Fraction(t) ==
    IF t % 100 = 0 THEN Digit(t \div 100)
    ELSE IF t % 10 = 0 THEN Digit(t \div 100) \o Digit((t \div 10) % 10)
    ELSE Digit(t \div 100) \o Digit((t \div 10) % 10) \o Digit(t % 10)

\* str(x): an int prints its digits, a float always prints a decimal point.
PyStr(x) ==
    LET a    == IF x.m < 0 THEN -x.m ELSE x.m
        sign == IF x.m < 0 THEN "-" ELSE ""
    IN  IF x.type = "int"
        THEN sign \o Digits(a \div 1000)
        ELSE sign \o Digits(a \div 1000) \o "." \o Fraction(a % 1000)

(***************************************************************************)
(* The taxonomy definitions (joints.py).  The class bodies are the input   *)
(* of the flattening: joints.py is regenerated for each robot, so besides  *)
(* the reference definition the model loads three edited definitions, each *)
(* differing from the reference in one leaf string.                        *)
(***************************************************************************)

Definitions == {"reference", "duplicate", "uncategorised", "ambiguous"}

Str(n, s)  == [name |-> n, kind |-> "str", val |-> s]
Inst(n, c) == [name |-> n, kind |-> "node", val |-> c]
Other(n)   == [name |-> n, kind |-> "other", val |-> ""]

\* What every class body gets from the interpreter: __module__ is a string,
\* which is why the scans skip names starting with "__".
ClassDunders ==
    << Str("__module__", "sim.stompy_legs.joints"), Other("__doc__") >>

\* class Node(ABC): its methods are class attributes that every subclass inherits.
Node ==
    ClassDunders \o
    << Other("children"), Other("joints"), Other("joints_motors"),
       Other("all_joints"), Other("__str__"), Other("_abc_impl") >>

\* The leaf strings the edited definitions put in place of a reference leaf.
LeftAnklePitch(d) ==
    IF d = "uncategorised" THEN "left ankle yaw" ELSE "left ankle pitch"

LeftAnkleRoll(d) ==
    IF d = "ambiguous" THEN "left ankle roll hip pitch" ELSE "left ankle roll"

RightAnklePitch(d) ==
    IF d = "duplicate" THEN "left ankle pitch" ELSE "right ankle pitch"

LeftLeg(d) ==
    << Str("hip_roll", "left hip roll"),
       Str("hip_yaw", "left hip yaw"),
       Str("hip_pitch", "left hip pitch"),
       Str("knee_pitch", "left knee pitch"),
       Str("ankle_pitch", LeftAnklePitch(d)),
       Str("ankle_roll", LeftAnkleRoll(d)) >>

RightLeg(d) ==
    << Str("hip_roll", "right hip roll"),
       Str("hip_yaw", "right hip yaw"),
       Str("hip_pitch", "right hip pitch"),
       Str("knee_pitch", "right knee pitch"),
       Str("ankle_pitch", RightAnklePitch(d)),
       Str("ankle_roll", "right ankle roll") >>

Legs == << Inst("left", "LeftLeg"), Inst("right", "RightLeg") >>

\* class Stompy(Node): one instance attribute and its classmethods.
StompyBody ==
    << Inst("legs", "Legs"),
       Other("default_positions"), Other("default_standing"),
       Other("default_limits"), Other("stiffness"), Other("damping"),
       Other("effort"), Other("velocity"), Other("friction") >>

\* The namespace of a class: its own body, then what it inherits from Node.
ClassBody(d, cls) ==
    CASE cls = "LeftLeg"  -> LeftLeg(d)
      [] cls = "RightLeg" -> RightLeg(d)
      [] cls = "Legs"     -> Legs
      [] cls = "Stompy"   -> StompyBody

Namespace(d, cls) == ClassDunders \o ClassBody(d, cls) \o Node

\* The attribute names in the order the class bodies bind them (the class's own
\* body, then its base's), each name once: what iterating the namespaces yields.
RECURSIVE FirstOccurrences(_)
FirstOccurrences(names) ==
    IF names = << >> THEN << >>
    ELSE LET n    == Len(names)
             rest == FirstOccurrences(SubSeq(names, 1, n - 1))
         IN  IF names[n] \in Range(rest) THEN rest ELSE Append(rest, names[n])

DirInBindingOrder(d, cls) ==
    FirstOccurrences([i \in 1..Len(ClassBody(d, cls) \o Node) |->
                         (ClassBody(d, cls) \o Node)[i].name])

\* dir(cls): the attribute names of the class and its bases, sorted.
Dir(d, cls) == SortedStrings({ a.name : a \in Range(Namespace(d, cls)) })

\* getattr(cls, name): the first definition along the MRO (own body first).
GetAttr(d, cls, n) ==
    LET ns == Namespace(d, cls)
        i  == CHOOSE k \in 1..Len(ns) :
                  ns[k].name = n /\ \A j \in 1..(k - 1) : ns[j].name # n
    IN  ns[i]

\* The generator both scans share:
\* (getattr(cls, attr) for attr in dir(cls) if not attr.startswith("__"))
PublicAttrs(d, cls) ==
    LET names == Dir(d, cls)
        kept  == SelectSeq(names, LAMBDA n : ~StartsWith(n, "__"))
    IN  [i \in 1..Len(kept) |-> GetAttr(d, cls, kept[i])]

\* Node.children: the attributes that are Node instances or strings.
children(d, cls) ==
    SelectSeq(PublicAttrs(d, cls), LAMBDA a : a.kind \in {"node", "str"})

\* Node.joints: the string attributes.
joints(d, cls) ==
    LET strs == SelectSeq(PublicAttrs(d, cls), LAMBDA a : a.kind = "str")
    IN  [i \in 1..Len(strs) |-> strs[i].val]

\* all_joints without its isinstance(child, Node) test: a string child is added
\* too, so every leaf is listed by joints() and again as a child.
RECURSIVE all_joints_every_child(_, _)
all_joints_every_child(d, cls) ==
    LET kids == children(d, cls)
    IN  joints(d, cls) \o
        Flatten([i \in 1..Len(kids) |->
                    IF kids[i].kind = "node"
                    THEN all_joints_every_child(d, kids[i].val)
                    ELSE <<kids[i].val>>])

\* Node.all_joints: own leaves, then each Node child's leaves, recursively.
RECURSIVE all_joints(_, _)
all_joints(d, cls) ==
    LET kids  == SelectSeq(children(d, cls), LAMBDA a : a.kind = "node")
    IN  joints(d, cls) \o
        Flatten([i \in 1..Len(kids) |-> all_joints(d, kids[i].val)])

\* Stompy.all_joints() of each definition, computed once.
StompyJoints == [d \in Definitions |-> all_joints(d, "Stompy")]

(***************************************************************************)
(* Python dicts, kept as the sequence of their <<key, value>> items in     *)
(* insertion order.                                                        *)
(***************************************************************************)

Keys(dict) == [i \in 1..Len(dict) |-> dict[i][1]]

HasKey(dict, k) == \E i \in 1..Len(dict) : dict[i][1] = k

\* dict[k]
Get(dict, k) == dict[CHOOSE i \in 1..Len(dict) : dict[i][1] = k][2]

\* dict[k] = v: a key already present keeps its place and takes the new value.
DictSet(dict, k, v) ==
    IF HasKey(dict, k)
    THEN [i \in 1..Len(dict) |-> IF dict[i][1] = k THEN <<k, v>> ELSE dict[i]]
    ELSE Append(dict, <<k, v>>)

\* {k1: v1, k2: v2, ...}: the items are inserted left to right.
RECURSIVE DictLiteral(_)
DictLiteral(items) ==
    IF items = << >> THEN << >>
    ELSE LET n == Len(items)
         IN  DictSet(DictLiteral(SubSeq(items, 1, n - 1)), items[n][1], items[n][2])

\* Stompy.legs.<side>.<attr>
Leaf(d, side, attr) ==
    LET legs == GetAttr(d, "Stompy", "legs").val
        leg  == GetAttr(d, legs, side).val
    IN  GetAttr(d, leg, attr).val

\* Stompy.default_standing()
default_standing(d) ==
    DictLiteral(<<
        <<Leaf(d, "left", "hip_pitch"), PyFloat(-1200)>>,
        <<Leaf(d, "left", "hip_yaw"), PyFloat(1060)>>,
        <<Leaf(d, "left", "hip_roll"), PyFloat(-30)>>,
        <<Leaf(d, "left", "knee_pitch"), PyFloat(-1270)>>,
        <<Leaf(d, "left", "ankle_pitch"), PyFloat(173)>>,
        <<Leaf(d, "left", "ankle_roll"), PyFloat(1750)>>,
        <<Leaf(d, "right", "hip_pitch"), PyFloat(420)>>,
        <<Leaf(d, "right", "hip_yaw"), PyFloat(-2080)>>,
        <<Leaf(d, "right", "hip_roll"), PyFloat(-1650)>>,
        <<Leaf(d, "right", "knee_pitch"), PyFloat(3300)>>,
        <<Leaf(d, "right", "ankle_pitch"), PyFloat(742)>>,
        <<Leaf(d, "right", "ankle_roll"), PyFloat(1690)>> >>)

\* The two bounds of a limits entry exchanged.
LimExchanged(lo, up) == [lower |-> PyFloat(up), upper |-> PyFloat(lo)]

\* One entry of default_limits(): {"lower": lo, "upper": up}.
Lim(lo, up) == [lower |-> PyFloat(lo), upper |-> PyFloat(up)]

\* Stompy.default_limits()
default_limits(d) ==
    DictLiteral(<<
        <<Leaf(d, "left", "hip_pitch"), Lim(-2200, -200)>>,
        <<Leaf(d, "left", "hip_yaw"), Lim(600, 1200)>>,
        <<Leaf(d, "left", "hip_roll"), Lim(-1030, 970)>>,
        <<Leaf(d, "left", "knee_pitch"), Lim(-2270, -270)>>,
        <<Leaf(d, "left", "ankle_pitch"), Lim(-827, 1173)>>,
        <<Leaf(d, "left", "ankle_roll"), Lim(750, 2750)>>,
        <<Leaf(d, "right", "hip_pitch"), Lim(-580, 1420)>>,
        <<Leaf(d, "right", "hip_yaw"), Lim(-2200, -1600)>>,
        <<Leaf(d, "right", "hip_roll"), Lim(-2650, -650)>>,
        <<Leaf(d, "right", "knee_pitch"), Lim(2300, 4300)>>,
        <<Leaf(d, "right", "ankle_pitch"), Lim(-258, 1742)>>,
        <<Leaf(d, "right", "ankle_roll"), Lim(690, 2690)>> >>)

\* The category tables: Stompy.stiffness(), damping(), effort(), velocity(),
\* friction().
stiffness ==
    << <<"hip pitch", PyInt(250)>>,
       <<"hip yaw", PyInt(150)>>,
       <<"hip roll", PyInt(150)>>,
       <<"knee pitch", PyInt(150)>>,
       <<"ankle pitch", PyInt(40)>>,
       <<"ankle roll", PyInt(40)>> >>

damping ==
    << <<"hip pitch", PyInt(10)>>,
       <<"hip yaw", PyInt(7)>>,
       <<"hip roll", PyInt(7)>>,
       <<"knee pitch", PyInt(7)>>,
       <<"ankle pitch", PyInt(1)>>,
       <<"ankle roll", PyFloat(300)>> >>

effort ==
    << <<"hip pitch", PyInt(150)>>,
       <<"hip yaw", PyInt(90)>>,
       <<"hip roll", PyInt(90)>>,
       <<"knee pitch", PyInt(90)>>,
       <<"ankle pitch", PyInt(24)>>,
       <<"ankle roll", PyInt(24)>> >>

velocity ==
    << <<"hip pitch", PyInt(40)>>,
       <<"hip yaw", PyInt(40)>>,
       <<"hip roll", PyInt(40)>>,
       <<"knee pitch", PyInt(40)>>,
       <<"ankle pitch", PyInt(24)>>,
       <<"ankle roll", PyInt(24)>> >>

friction ==
    << <<"hip pitch", PyFloat(0)>>,
       <<"hip yaw", PyFloat(0)>>,
       <<"hip roll", PyFloat(0)>>,
       <<"knee pitch", PyFloat(0)>>,
       <<"ankle pitch", PyFloat(0)>>,
       <<"ankle roll", PyFloat(100)>> >>

\* The tables' items whose key occurs in the joint name, in table order.
Matches(table, joint_name) ==
    SelectSeq(table, LAMBDA item : Contains(item[1], joint_name))

\* The value a `for key, value in table.items(): if key in name: x = value`
\* loop leaves in x, which held old before the loop: every match assigns.
AssignEachMatch(table, joint_name, old) ==
    LET ms == Matches(table, joint_name)
    IN  IF ms = << >> THEN old ELSE ms[Len(ms)][2]

\* The same loop with a `break` after the assignment: the first match assigns.
AssignFirstMatch(table, joint_name, old) ==
    LET ms == Matches(table, joint_name)
    IN  IF ms = << >> THEN old ELSE ms[1][2]

(***************************************************************************)
(* create_fixed_torso.py.  The document is the sequence of its <joint>     *)
(* elements; an element's <limit> and <dynamics> children may be absent,   *)
(* attribute values are text.                                              *)
(***************************************************************************)

MaxUrdfJoints == 1

\* The attribute texts of the file that is read.
OldLimit    == [present |-> TRUE, lower |-> "-3.14", upper |-> "3.14",
                effort |-> "80", velocity |-> "5"]
NoLimit     == [present |-> FALSE, lower |-> "", upper |-> "",
                effort |-> "", velocity |-> ""]
OldDynamics == [present |-> TRUE, friction |-> "0.5"]
NoDynamics  == [present |-> FALSE, friction |-> ""]

UrdfJointNames(d) ==
    {"left hip pitch", LeftAnklePitch(d), LeftAnkleRoll(d), "torso roll"}

UrdfJoints(d) ==
    [name : UrdfJointNames(d), type : {"revolute", "fixed"},
     limit : {OldLimit, NoLimit}, dynamics : {OldDynamics, NoDynamics}]

UrdfDocuments(d) ==
    UNION { [1..n -> UrdfJoints(d)] : n \in 1..MaxUrdfJoints }

\* The loop body without its membership test: every joint is marked fixed.
UpdateJointAllFixed(d, joint) == [joint EXCEPT !.type = "fixed"]

\* The body of `for joint in root.findall("joint")` for one element.
UpdateJoint(d, joint) ==
    LET revolute_joints == Range(Keys(default_standing(d)))
        joint_limits    == default_limits(d)
        joint_name      == joint.name
        limit           == joint.limit
        dynamics        == joint.dynamics
        lower == IF HasKey(joint_limits, joint_name)
                 THEN PyStr(Get(joint_limits, joint_name).lower)
                 ELSE PyStr(PyFloat(0))
        upper == IF HasKey(joint_limits, joint_name)
                 THEN PyStr(Get(joint_limits, joint_name).upper)
                 ELSE PyStr(PyFloat(0))
        eff   == Matches(effort, joint_name)
        vel   == Matches(velocity, joint_name)
        fric  == Matches(friction, joint_name)
    IN  IF joint_name \notin revolute_joints
        THEN [joint EXCEPT !.type = "fixed"]
        ELSE [joint EXCEPT
                !.limit = IF limit.present
                          THEN [present  |-> TRUE,
                                lower    |-> lower,
                                upper    |-> upper,
                                effort   |-> IF eff = << >> THEN limit.effort
                                             ELSE PyStr(AssignEachMatch(effort, joint_name, 0)),
                                velocity |-> IF vel = << >> THEN limit.velocity
                                             ELSE PyStr(AssignEachMatch(velocity, joint_name, 0))]
                          ELSE limit,
                !.dynamics = IF dynamics.present
                             THEN [present  |-> TRUE,
                                   friction |-> IF fric = << >> THEN dynamics.friction
                                                ELSE PyStr(AssignEachMatch(friction, joint_name, 0))]
                             ELSE dynamics]

\* update_urdf: every <joint> of the root is rewritten in place.
update_urdf(d, root) == [i \in 1..Len(root) |-> UpdateJoint(d, root[i])]

(***************************************************************************)
(* calibration.py: the control law                                         *)
(***************************************************************************)

\* The law without the default-pose offset.
pd_control_no_offset(target_q, q, kp_, dq_, kd_, default) ==
    kp_ * (target_q - q) - kd_ * dq_

\* pd_control: "Calculates torques from position commands".
pd_control(target_q, q, kp_, dq_, kd_, default) ==
    kp_ * (target_q + default - q) - kd_ * dq_

\* A clip that bounds from below only.
clip_lower_only(x, lower, upper) ==
    IF x < lower THEN lower ELSE x

\* torch.clip of one element.
clip(x, lower, upper) ==
    IF x < lower THEN lower ELSE IF x > upper THEN upper ELSE x

(***************************************************************************)
(* State                                                                   *)
(***************************************************************************)

\* A Python list that is only appended to and then saved, kept as its length and
\* its last element.
EmptyList(none) == [len |-> 0, last |-> none]

\* list.append(x) that leaves the list as it is.
ListAppendLost(list, x) == list

\* list.append(x)
ListAppend(list, x) == [len |-> list.len + 1, last |-> x]

\* An element of a position or velocity tensor: which tensor ("pos" or "vel" of
\* the dof state tensor, or "zeros" for a torch.zeros tensor), the joint, the
\* physics step at which the dof state tensor was last filled from the
\* simulation (-1 for a tensor that is not the simulator's), the physics step at
\* which the element is read, and the offset subtracted from it.  The numbers
\* themselves are the physics engine's.
Reading(what, joint, filled, read, offset) ==
    [what |-> what, joint |-> joint, filled_at |-> filled, read_at |-> read,
     minus |-> offset]

NoReading == Reading("", "", -1, -1, PyInt(0))

VARIABLES
    script,       \* the module that is run
    defn,         \* the taxonomy definition joints.py holds
    pc,           \* where the program is
    loaded,       \* joints.py has been imported (its class bodies executed)
    raised,       \* the exception that ended the program, "" if none
    returned,     \* what each call of Stompy.all_joints() returned, in call order
    NUM_JOINTS,   \* only_legs_config.NUM_JOINTS, -1 before it is bound
    default_joint_angles,  \* only_legs_config ... init_state.default_joint_angles
    urdf,         \* the <joint> elements of robot.urdf
    robot_fixed,  \* the <joint> elements written to robot_fixed.urdf
    pd_args,      \* the arguments of the last pd_control call
    pd_out,       \* what it returned
    sin_pos,      \* run_id_test: sin_pos, in thousandths
    dof_state,    \* the numbers in the simulator's dof state tensor, in thousandths
    set_positions,\* run_id_test: set_positions, in thousandths
    set_torques,  \* run_id_test: set_torques, in millionths
    MODE,         \* main: MODE
    next_key,     \* main: the position of the for loop in default_standing().keys()
    calibrated,   \* the joint_id of each run_id_test call made, in call order
    sim_alive,    \* gym.sim has been created and not destroyed
    viewer_alive, \* gym.viewer has been created and not destroyed
    sim_steps,    \* the gym.simulate calls made: the physics steps advanced
    state_at,     \* the value of sim_steps when the dof state tensor was last filled
    applied,      \* the actuation force tensor last handed to the simulator
    joint_name,   \* run_id_test: joint_name
    default_pos,  \* run_id_test: default_pos
    kp,           \* run_id_test: kp
    kd,           \* run_id_test: kd
    torques,      \* run_id_test: torques
    dof_pos,      \* run_id_test: the tensor dof_pos names ("zeros" or "state")
    dof_vel,      \* run_id_test: the tensor dof_vel names
    q,            \* run_id_test: what q names ("int" for the literal 0, or "state")
    dq,           \* run_id_test: what dq names
    step,         \* run_id_test: step
    sub,          \* run_id_test: the iterations done by the running `for _ in range(...)`
    positions,    \* run_id_test: positions
    time_data,    \* run_id_test: time_data
    position_data,\* run_id_test: position_data
    velocity_data,\* run_id_test: velocity_data
    files         \* the archives written by np.savez, in writing order

progVars   == << script, defn, pc, loaded, raised >>
scriptVars == << returned, NUM_JOINTS, default_joint_angles, urdf, robot_fixed >>
trackVars  == << sin_pos, dof_state, set_positions, set_torques >>
pdVars     == << pd_args, pd_out, trackVars >>
gymVars    == << sim_alive, viewer_alive, sim_steps, state_at, applied >>
mainVars   == << MODE, next_key, calibrated, files >>
runVars    == << joint_name, default_pos, kp, kd, torques, dof_pos, dof_vel, q, dq,
                 step, sub,
                 positions, time_data, position_data, velocity_data >>
calVars    == << gymVars, mainVars, runVars >>

vars == << progVars, scriptVars, pdVars, calVars >>

ScriptsIdle ==
    /\ returned = << >>
    /\ NUM_JOINTS = -1
    /\ default_joint_angles = << >>
    /\ urdf = << >>
    /\ robot_fixed = << >>

\* The numbers of a Track sub-step, outside one.
TrackIdle ==
    /\ sin_pos = 0
    /\ dof_state = << >>
    /\ set_positions = << >>
    /\ set_torques = << >>

PdIdle ==
    /\ pd_args = << >>
    /\ pd_out = 0
    /\ TrackIdle

\* The locals of run_id_test outside a call.
NoRun ==
    /\ joint_name = ""
    /\ default_pos = PyInt(0)
    /\ kp = PyInt(0)
    /\ kd = PyInt(0)
    /\ torques = << >>
    /\ dof_pos = ""
    /\ dof_vel = ""
    /\ q = ""
    /\ dq = ""
    /\ step = 0
    /\ sub = 0
    /\ positions = << >>
    /\ time_data = EmptyList(-1)
    /\ position_data = EmptyList(NoReading)
    /\ velocity_data = EmptyList(NoReading)

CalIdle ==
    /\ MODE = ""
    /\ next_key = 1
    /\ calibrated = << >>
    /\ files = << >>
    /\ sim_alive = FALSE
    /\ viewer_alive = FALSE
    /\ sim_steps = 0
    /\ state_at = 0
    /\ applied = << >>
    /\ NoRun

(***************************************************************************)
(* The programs that load the taxonomy: joints.py run as a script,         *)
(* only_legs_config.py when imported, create_fixed_torso.py.               *)
(***************************************************************************)

Scripts == {"joints", "only_legs_config", "create_fixed_torso"}

Init ==
    /\ script \in Scripts
    /\ defn \in Definitions
    /\ pc = "import"
    /\ loaded = FALSE
    /\ raised = ""
    /\ returned = << >>
    /\ NUM_JOINTS = -1
    /\ default_joint_angles = << >>
    /\ urdf \in IF script = "create_fixed_torso" THEN UrdfDocuments(defn) ELSE {<< >>}
    /\ robot_fixed = << >>
    /\ PdIdle
    /\ CalIdle

\* `from sim.stompy_legs.joints import Stompy`: the class statements run; nothing
\* in them or in Node inspects the leaves.
ImportJoints ==
    /\ pc = "import"
    /\ loaded' = TRUE
    /\ pc' = "main"
    /\ UNCHANGED << script, defn, raised, scriptVars, pdVars, calVars >>

\* joints.py __main__: print_joints().
print_joints ==
    /\ script = "joints" /\ pc = "main"
    /\ LET joints_ == StompyJoints[defn]
       IN  /\ returned' = Append(returned, joints_)
           /\ IF Len(joints_) = Cardinality(Range(joints_))
              THEN pc' = "done" /\ raised' = raised
              ELSE pc' = "failed" /\ raised' = "AssertionError"
    /\ UNCHANGED << script, defn, loaded, NUM_JOINTS, default_joint_angles,
                    urdf, robot_fixed, pdVars, calVars >>

\* only_legs_config.py line 11: NUM_JOINTS = len(Stompy.all_joints()).
BindNumJoints ==
    /\ script = "only_legs_config" /\ pc = "main"
    /\ returned' = Append(returned, StompyJoints[defn])
    /\ NUM_JOINTS' = Len(StompyJoints[defn])
    /\ pc' = "init_state"
    /\ UNCHANGED << script, defn, loaded, raised, default_joint_angles,
                    urdf, robot_fixed, pdVars, calVars >>

\* only_legs_config.py line 92: {k: 0.0 for k in Stompy.all_joints()}.
BindDefaultJointAngles ==
    /\ script = "only_legs_config" /\ pc = "init_state"
    /\ returned' = Append(returned, StompyJoints[defn])
    /\ default_joint_angles' =
           DictLiteral([i \in 1..Len(StompyJoints[defn]) |->
                           <<StompyJoints[defn][i], PyFloat(0)>>])
    /\ pc' = "done"
    /\ UNCHANGED << script, defn, loaded, raised, NUM_JOINTS, urdf,
                    robot_fixed, pdVars, calVars >>

\* create_fixed_torso.py __main__: update_urdf(), then tree.write.
RewriteUrdf ==
    /\ script = "create_fixed_torso" /\ pc = "main"
    /\ robot_fixed' = update_urdf(defn, urdf)
    /\ pc' = "done"
    /\ UNCHANGED << script, defn, loaded, raised, returned, NUM_JOINTS,
                    default_joint_angles, urdf, pdVars, calVars >>

Next ==
    \/ ImportJoints
    \/ print_joints
    \/ BindNumJoints
    \/ BindDefaultJointAngles
    \/ RewriteUrdf

Spec == Init /\ [][Next]_vars

(***************************************************************************)
(* The control law applied to bounded arguments.                           *)
(***************************************************************************)

MaxAngle == 1
MaxRate  == 2

PdAngles == (-MaxAngle)..MaxAngle
PdRates  == (-MaxRate)..MaxRate
PdKps    == {0, 100, 250}
PdKds    == {0, 10}

InitPd ==
    /\ script = "calibration"
    /\ defn = "reference"
    /\ pc = "pd"
    /\ loaded = TRUE
    /\ raised = ""
    /\ ScriptsIdle
    /\ pd_args \in PdAngles \X PdAngles \X PdKps \X PdRates \X PdKds \X PdAngles
    /\ pd_out = 0
    /\ TrackIdle
    /\ CalIdle

\* One call of pd_control; it reads its arguments and returns a number.
CallPdControl ==
    /\ pc = "pd"
    /\ pd_out' = pd_control(pd_args[1], pd_args[2], pd_args[3],
                            pd_args[4], pd_args[5], pd_args[6])
    /\ pc' = "pd_returned"
    /\ UNCHANGED << script, defn, loaded, raised, scriptVars, pd_args, trackVars,
                    calVars >>

NextPd == CallPdControl

SpecPd == InitPd /\ [][NextPd]_vars

(***************************************************************************)
(* calibration.py: main and run_id_test.  The module binds the name Stompy *)
(* by import; the taxonomy it is run with here is joints.py's.  Tensors of *)
(* shape (1, len(Stompy.all_joints())) are indexed by joint: gym.dof_ids   *)
(* maps each joint name to its own column.                                 *)
(***************************************************************************)

steps         == 10000
decimation    == 5
torque_limits == 18
TORQUE_SOFT   == 18
WarmupSteps   == 100
SweepDivisor  == 40
SettleTicks   == 100
TrackEnd      == 10000

\* steps/40, the bound of both sweep loops.
SweepTicks == steps \div SweepDivisor

Modes == {"calibration", "sin_id", "plot"}

\* The runs: every definition is swept, the reference one is run in every mode.
CalibrationInputs ==
    { <<d, "calibration">> : d \in Definitions } \cup
    { <<"reference", m>> : m \in Modes }

\* Stompy.default_standing() of each definition, computed once.
StompyStanding == [d \in Definitions |-> default_standing(d)]

\* The columns of each definition's tensors.
StompyColumns == [d \in Definitions |-> Range(StompyJoints[d])]

\* torch.zeros(...) after `for joint, val in Stompy.default_standing().items():
\* set_positions[:, gym.dof_ids[joint]] = val`, of each definition.
StandingPositions ==
    [d \in Definitions |->
        [j \in StompyColumns[d] |->
            IF HasKey(StompyStanding[d], j) THEN Get(StompyStanding[d], j)
            ELSE PyFloat(0)]]

Columns(d) == StompyColumns[d]

\* One entry of a torque tensor: a number, or the clipped result of pd_control
\* on the arguments given.
Constant(v) == [law |-> "constant", args |-> <<v>>, limit |-> PyInt(0)]
ClippedPd(args, limit) == [law |-> "pd_control", args |-> args, limit |-> limit]

\* torch.zeros(1, len(Stompy.all_joints()))
Zeros(d) == [j \in Columns(d) |-> Constant(PyInt(0))]

\* math.sin(2 * math.pi * step * dt / 0.64) for the tick that starts at step.
SinPos(t) == [sin_at_step |-> t]

\* tensor[0, j] for the tensor a local names.
Element(tensor, what, j) ==
    IF tensor = "state" THEN Reading(what, j, state_at, sim_steps, PyInt(0))
    ELSE Reading("zeros", j, -1, sim_steps, PyInt(0))

InitCal ==
    /\ script = "calibration"
    /\ \E input \in CalibrationInputs : defn = input[1] /\ MODE = input[2]
    /\ pc = "import"
    /\ loaded = FALSE
    /\ raised = ""
    /\ ScriptsIdle
    /\ PdIdle
    /\ next_key = 1
    /\ calibrated = << >>
    /\ files = << >>
    /\ sim_alive = FALSE
    /\ viewer_alive = FALSE
    /\ sim_steps = 0
    /\ state_at = 0
    /\ applied = << >>
    /\ NoRun

\* load_gym: the simulation and the viewer are created, the dof state tensor is
\* refreshed once and the default pose is written into it.
LoadGym ==
    /\ script = "calibration" /\ pc = "main"
    /\ sim_alive' = TRUE
    /\ viewer_alive' = TRUE
    /\ sim_steps' = 0
    /\ state_at' = 0
    /\ applied' = Zeros(defn)
    /\ pc' = "loop"
    /\ UNCHANGED << script, defn, loaded, raised, scriptVars, pdVars, mainVars, runVars >>

\* load_gym: create_sim or create_viewer returns None.
LoadGymFails ==
    /\ script = "calibration" /\ pc = "main"
    /\ raised' = "RuntimeError"
    /\ pc' = "failed"
    /\ UNCHANGED << script, defn, loaded, scriptVars, pdVars, calVars >>

\* main: the joint the for loop is at.
Joint == Keys(StompyStanding[defn])[next_key]

\* main: the tests of the loop body, in order; the last one calls run_id_test.
Selected(joint) ==
    /\ ~Contains("shoulder", joint)
    /\ ~Contains("elbow", joint)
    /\ ~Contains("wrist", joint)
    /\ Contains("ankle", joint)

\* main: an iteration that does not reach the run_id_test call.
MainSkip ==
    /\ pc = "loop"
    /\ next_key <= Len(StompyStanding[defn])
    /\ ~Selected(Joint)
    /\ next_key' = next_key + 1
    /\ UNCHANGED << progVars, scriptVars, pdVars, gymVars, MODE, calibrated, files,
                    runVars >>

\* main: an iteration that calls run_id_test; its lines 184 to 221 and its
\* choice of the mode's branch (an unknown mode raises).
StartRun ==
    /\ pc = "loop"
    /\ next_key <= Len(StompyStanding[defn])
    /\ Selected(Joint)
    /\ next_key' = next_key + 1
    /\ calibrated' = Append(calibrated, Joint)
    /\ joint_name' = Joint
    /\ default_pos' = Get(StompyStanding[defn], Joint)
    /\ kd' = AssignFirstMatch(damping, Joint, PyInt(10))
    /\ kp' = AssignFirstMatch(stiffness, Joint, PyInt(250))
    /\ torques' = Zeros(defn)
    /\ dof_pos' = "zeros"
    /\ dof_vel' = "zeros"
    /\ q' = "int"
    /\ dq' = "int"
    /\ step' = 0
    /\ sub' = 0
    /\ positions' = << >>
    /\ time_data' = EmptyList(-1)
    /\ position_data' = EmptyList(NoReading)
    /\ velocity_data' = EmptyList(NoReading)
    /\ pc' = CASE MODE = "calibration" -> "warmup"
               [] MODE = "sin_id" -> IF 0 < SettleTicks THEN "settle" ELSE "track"
               [] OTHER -> "failed"
    /\ raised' = IF MODE \in {"calibration", "sin_id"} THEN raised ELSE "ValueError"
    /\ UNCHANGED << script, defn, loaded, scriptVars, pdVars, gymVars, MODE, files >>

\* main: the for loop is exhausted.
MainExit ==
    /\ pc = "loop"
    /\ next_key > Len(StompyStanding[defn])
    /\ pc' = "exit"
    /\ UNCHANGED << script, defn, loaded, raised, scriptVars, pdVars, calVars >>

\* calibration, `for _ in range(100)`: one physics step and one frame.
WarmupStep ==
    /\ pc = "warmup"
    /\ sub < WarmupSteps
    /\ sim_steps' = sim_steps + 1
    /\ IF sub + 1 < WarmupSteps
       THEN sub' = sub + 1 /\ pc' = pc
       ELSE sub' = 0 /\ pc' = "high"
    /\ UNCHANGED << script, defn, loaded, raised, scriptVars, pdVars, mainVars,
                    sim_alive, viewer_alive, state_at, applied,
                    joint_name, default_pos, kp, kd, torques, dof_pos, dof_vel, q, dq,
                    step, positions, time_data, position_data, velocity_data >>

\* calibration, one iteration of `for _ in range(decimation)` of a sweep loop:
\* the torque of the joint is set, the tensor is handed to the simulator, the
\* dof state tensor is acquired (not refreshed), the physics is stepped.
SweepSubStep(phase, torque) ==
    /\ pc = phase
    /\ step < SweepTicks
    /\ sub < decimation
    /\ torques' = [torques EXCEPT ![joint_name] = Constant(torque)]
    /\ applied' = torques'
    /\ dof_pos' = "state"
    /\ q' = "state"
    /\ sim_steps' = sim_steps + 1
    /\ sub' = sub + 1
    /\ UNCHANGED << progVars, scriptVars, pdVars, mainVars,
                    sim_alive, viewer_alive, state_at,
                    joint_name, default_pos, kp, kd, dof_vel, dq,
                    step, positions, time_data, position_data, velocity_data >>

\* calibration, the end of a tick: positions.append(q.item()); step += 1.
SweepSample(phase) ==
    /\ pc = phase
    /\ sub = decimation
    /\ positions' = Append(positions, Element(q, "pos", joint_name))
    /\ step' = step + 1
    /\ sub' = 0
    /\ UNCHANGED << progVars, scriptVars, pdVars, mainVars, gymVars,
                    joint_name, default_pos, kp, kd, torques, dof_pos, dof_vel, q, dq,
                    time_data, position_data, velocity_data >>

HighSubStep == SweepSubStep("high", PyInt(TORQUE_SOFT))
HighSample  == SweepSample("high")

\* The second sweep loop commanding the torque of the first.
LowSubStepSameSign == SweepSubStep("low", PyInt(TORQUE_SOFT))

LowSubStep  == SweepSubStep("low", PyInt(-TORQUE_SOFT))
LowSample   == SweepSample("low")

\* calibration, the first while loop ends: step = 0.
HighDone ==
    /\ pc = "high"
    /\ sub = 0
    /\ ~(step < SweepTicks)
    /\ step' = 0
    /\ pc' = "low"
    /\ UNCHANGED << script, defn, loaded, raised, scriptVars, pdVars, mainVars, gymVars,
                    joint_name, default_pos, kp, kd, torques, dof_pos, dof_vel, q, dq,
                    sub, positions, time_data, position_data, velocity_data >>

NoFile == [file |-> "", positions |-> << >>, step |-> EmptyList(-1),
           position |-> EmptyList(NoReading), velocity |-> EmptyList(NoReading)]

\* calibration, the second while loop ends: np.savez, and run_id_test returns.
SaveCalibration ==
    /\ pc = "low"
    /\ sub = 0
    /\ ~(step < SweepTicks)
    /\ files' = Append(files, [NoFile EXCEPT !.file = joint_name \o "_calibration.npz",
                                             !.positions = positions])
    /\ pc' = "loop"
    /\ UNCHANGED << script, defn, loaded, raised, scriptVars, pdVars, gymVars,
                    MODE, next_key, calibrated, runVars >>

\* sin_id, one iteration of `while step < 100`: one physics step, step += 1.
SettleTick ==
    /\ pc = "settle"
    /\ step < SettleTicks
    /\ sim_steps' = sim_steps + 1
    /\ step' = step + 1
    /\ pc' = IF step + 1 < SettleTicks THEN "settle" ELSE "track"
    /\ UNCHANGED << script, defn, loaded, raised, scriptVars, pdVars, mainVars,
                    sim_alive, viewer_alive, state_at, applied,
                    joint_name, default_pos, kp, kd, torques, dof_pos, dof_vel, q, dq,
                    sub, positions, time_data, position_data, velocity_data >>

\* sin_id, the head of an iteration of `while step < 10000`: one physics step,
\* then sin_pos is computed from step.
TrackTick ==
    /\ pc = "track"
    /\ step < TrackEnd
    /\ sim_steps' = sim_steps + 1
    /\ sub' = 0
    /\ pc' = "track_sub"
    /\ UNCHANGED << script, defn, loaded, raised, scriptVars, pdVars, mainVars,
                    sim_alive, viewer_alive, state_at, applied,
                    joint_name, default_pos, kp, kd, torques, dof_pos, dof_vel, q, dq,
                    step, positions, time_data, position_data, velocity_data >>

\* sin_id: set_positions of one column, after the loop over default_standing()
\* and the assignment set_positions[0, joint_id] = sin_pos.
SetPosition(j) ==
    IF j = joint_name THEN SinPos(step) ELSE StandingPositions[defn][j]

\* sin_id, one iteration of `for _ in range(decimation)`: the torques are
\* computed and clipped, handed to the simulator, and the dof state tensor is
\* acquired and refreshed.
TrackSubStep ==
    /\ pc = "track_sub"
    /\ sub < decimation
    /\ torques' = [j \in Columns(defn) |->
                      ClippedPd(<< SinPos(step), Element(dof_pos, "pos", j), kp,
                                   Element(dof_vel, "vel", j), kd, SetPosition(j) >>,
                                PyInt(torque_limits))]
    /\ applied' = torques'
    /\ state_at' = sim_steps
    /\ dof_pos' = "state"
    /\ dof_vel' = "state"
    /\ q' = "state"
    /\ dq' = "state"
    /\ sub' = sub + 1
    /\ UNCHANGED << progVars, scriptVars, pdVars, mainVars,
                    sim_alive, viewer_alive, sim_steps,
                    joint_name, default_pos, kp, kd,
                    step, positions, time_data, position_data, velocity_data >>

\* sin_id, the end of a tick: the three appends and step += 1.
TrackSample ==
    /\ pc = "track_sub"
    /\ sub = decimation
    /\ time_data' = ListAppend(time_data, step)
    /\ position_data' =
           ListAppend(position_data,
                      [Element(q, "pos", joint_name) EXCEPT !.minus = default_pos])
    /\ velocity_data' = ListAppend(velocity_data, Element(dq, "vel", joint_name))
    /\ step' = step + 1
    /\ sub' = 0
    /\ pc' = "track"
    /\ UNCHANGED << script, defn, loaded, raised, scriptVars, pdVars, mainVars, gymVars,
                    joint_name, default_pos, kp, kd, torques, dof_pos, dof_vel, q, dq,
                    positions >>

\* sin_id, after the loop: destroy_viewer, destroy_sim, the plot, np.savez, and
\* run_id_test returns.
FinishSinId ==
    /\ pc = "track"
    /\ ~(step < TrackEnd)
    /\ viewer_alive' = FALSE
    /\ sim_alive' = FALSE
    /\ files' = Append(files, [NoFile EXCEPT !.file = "simulaion.npz",
                                             !.step = time_data,
                                             !.position = position_data,
                                             !.velocity = velocity_data])
    /\ pc' = "loop"
    /\ UNCHANGED << script, defn, loaded, raised, scriptVars, pdVars,
                    sim_steps, state_at, applied, MODE, next_key, calibrated, runVars >>

\* A gym call or a tensor read on a destroyed simulation is undefined in the
\* native library: the process may die there (its memory is gone, the files it
\* wrote stay), or the call may return and the run go on (the actions above).
UseAfterDestroy ==
    /\ pc \in {"warmup", "high", "low", "settle", "track", "track_sub"}
    /\ ~sim_alive
    /\ pc' = "crashed"
    /\ viewer_alive' = FALSE
    /\ sim_alive' = FALSE
    /\ sim_steps' = 0
    /\ state_at' = 0
    /\ applied' = << >>
    /\ joint_name' = ""
    /\ default_pos' = PyInt(0)
    /\ kp' = PyInt(0)
    /\ kd' = PyInt(0)
    /\ torques' = << >>
    /\ dof_pos' = ""
    /\ dof_vel' = ""
    /\ q' = ""
    /\ dq' = ""
    /\ step' = 0
    /\ sub' = 0
    /\ positions' = << >>
    /\ time_data' = EmptyList(-1)
    /\ position_data' = EmptyList(NoReading)
    /\ velocity_data' = EmptyList(NoReading)
    /\ UNCHANGED << script, defn, loaded, raised, scriptVars, pdVars, mainVars >>

NextCal ==
    \/ ImportJoints
    \/ LoadGym
    \/ LoadGymFails
    \/ MainSkip
    \/ StartRun
    \/ MainExit
    \/ WarmupStep
    \/ HighSubStep
    \/ HighSample
    \/ HighDone
    \/ LowSubStep
    \/ LowSample
    \/ SaveCalibration
    \/ SettleTick
    \/ TrackTick
    \/ TrackSubStep
    \/ TrackSample
    \/ FinishSinId
    \/ UseAfterDestroy

SpecCal == InitCal /\ [][NextCal]_vars

(***************************************************************************)
(* calibration.py: one Track tick of run_id_test in numbers.  Angles and   *)
(* rates are in thousandths, gains in thousandths, torques in millionths.  *)
(* math.sin and the simulator's state are inputs: any value of [-1, 1] and *)
(* any joint state.                                                        *)
(***************************************************************************)

SinGrid   == 2
MaxOffset == 1
MaxVel    == 1

\* Values of math.sin(...), in thousandths.
SinValues == { (k * 1000) \div SinGrid : k \in (-SinGrid)..SinGrid }

\* The simulator's dof state: every joint displaced from its default standing
\* angle by the same offset (in half radians) and moving at the same rate.
DofStates ==
    { [j \in Columns("reference") |->
          [pos |-> StandingPositions["reference"][j].m + o * 500,
           vel |-> v * 1000]] :
      o \in (-MaxOffset)..MaxOffset, v \in (-MaxVel)..MaxVel }

\* dof_pos[0, j] and dof_vel[0, j]: the tensors are torch.zeros until the first
\* sub-step of the run rebinds them to the dof state tensor.
DofPos(j) == IF dof_pos = "state" THEN dof_state[j].pos ELSE 0
DofVel(j) == IF dof_vel = "state" THEN dof_state[j].vel ELSE 0

\* The joints main runs on the reference taxonomy.
TrackJoints ==
    { j \in Range(Keys(StompyStanding["reference"])) : Selected(j) }

\* The head of a Track tick of a run: sin_pos is computed, the simulator holds
\* some state, and dof_pos and dof_vel name the zeros of line 208 (the run's
\* first tick) or the dof state tensor.
InitTrack ==
    /\ script = "calibration"
    /\ defn = "reference"
    /\ MODE = "sin_id"
    /\ pc = "track_sub"
    /\ loaded = TRUE
    /\ raised = ""
    /\ ScriptsIdle
    /\ pd_args = << >>
    /\ pd_out = 0
    /\ joint_name \in TrackJoints
    /\ calibrated = << joint_name >>
    /\ next_key = 1
    /\ files = << >>
    /\ sim_alive = TRUE
    /\ viewer_alive = TRUE
    /\ sim_steps = SettleTicks + 1
    /\ state_at = 0
    /\ applied = [j \in Columns(defn) |-> 0]
    /\ default_pos = Get(StompyStanding[defn], joint_name)
    /\ kd = AssignFirstMatch(damping, joint_name, PyInt(10))
    /\ kp = AssignFirstMatch(stiffness, joint_name, PyInt(250))
    /\ torques = [j \in Columns(defn) |-> 0]
    /\ dof_pos \in {"zeros", "state"}
    /\ dof_vel = dof_pos
    /\ q = IF dof_pos = "state" THEN "state" ELSE "int"
    /\ dq = q
    /\ step = SettleTicks
    /\ sub = 0
    /\ positions = << >>
    /\ time_data = EmptyList(-1)
    /\ position_data = EmptyList(NoReading)
    /\ velocity_data = EmptyList(NoReading)
    /\ sin_pos \in SinValues
    /\ dof_state \in DofStates
    /\ set_positions = << >>
    /\ set_torques = << >>

\* Lines 295 to 299: the default standing angles, then sin_pos in the column of
\* the run's joint.
TrackSetPositions ==
    /\ pc = "track_sub"
    /\ sub < decimation
    /\ set_positions' =
           [[j \in Columns(defn) |-> StandingPositions[defn][j].m]
               EXCEPT ![joint_name] = sin_pos]
    /\ pc' = "track_positions"
    /\ UNCHANGED << script, defn, loaded, raised, scriptVars, pd_args, pd_out,
                    sin_pos, dof_state, set_torques, calVars >>

\* Lines 301 to 308: pd_control for every column, and torques = set_torques.
TrackSetTorques ==
    /\ pc = "track_positions"
    /\ set_torques' =
           [j \in Columns(defn) |->
               pd_control(sin_pos, DofPos(j), kp.m, DofVel(j), kd.m,
                          set_positions[j])]
    /\ torques' = set_torques'
    /\ pc' = "track_torques"
    /\ UNCHANGED << script, defn, loaded, raised, scriptVars, pd_args, pd_out,
                    sin_pos, dof_state, set_positions, gymVars, mainVars,
                    joint_name, default_pos, kp, kd, dof_pos, dof_vel, q, dq,
                    step, sub, positions, time_data, position_data, velocity_data >>

\* Line 310: torques = torch.clip(torques, -torque_limits, torque_limits).
TrackClip ==
    /\ pc = "track_torques"
    /\ torques' = [j \in Columns(defn) |->
                      clip(torques[j], PyInt(-torque_limits).m * 1000,
                           PyInt(torque_limits).m * 1000)]
    /\ pc' = "track_clipped"
    /\ UNCHANGED << script, defn, loaded, raised, scriptVars, pdVars, gymVars,
                    mainVars,
                    joint_name, default_pos, kp, kd, dof_pos, dof_vel, q, dq,
                    step, sub, positions, time_data, position_data, velocity_data >>

\* Line 311: set_dof_actuation_force_tensor.
TrackSetForce ==
    /\ pc = "track_clipped"
    /\ applied' = torques
    /\ pc' = "track_applied"
    /\ UNCHANGED << script, defn, loaded, raised, scriptVars, pdVars, mainVars,
                    sim_alive, viewer_alive, sim_steps, state_at, runVars >>

\* Lines 313 to 320: the dof state tensor is acquired and refreshed, and
\* dof_pos, dof_vel, q, dq are bound to it; the next sub-step, or the sample.
TrackRefresh ==
    /\ pc = "track_applied"
    /\ state_at' = sim_steps
    /\ dof_pos' = "state"
    /\ dof_vel' = "state"
    /\ q' = "state"
    /\ dq' = "state"
    /\ sub' = sub + 1
    /\ pc' = IF sub + 1 < decimation THEN "track_sub" ELSE "track_sample"
    /\ UNCHANGED << script, defn, loaded, raised, scriptVars, pdVars, mainVars,
                    sim_alive, viewer_alive, sim_steps, applied,
                    joint_name, default_pos, kp, kd, torques,
                    step, positions, time_data, position_data, velocity_data >>

NextTrack ==
    \/ TrackSetPositions
    \/ TrackSetTorques
    \/ TrackClip
    \/ TrackSetForce
    \/ TrackRefresh

SpecTrack == InitTrack /\ [][NextTrack]_vars

(***************************************************************************)
(* Properties of the taxonomy and of the URDF rewrite                      *)
(***************************************************************************)

\* The number an attribute text denotes, in thousandths (what float(text) reads).
RECURSIVE Natural(_)
Natural(text) ==
    IF text = "" THEN 0
    ELSE 10 * Natural(SubSeq(text, 1, Len(text) - 1))
         + (CHOOSE k \in 0..9 : Digit(k) = SubSeq(text, Len(text), Len(text)))

Value(text) ==
    LET neg    == StartsWith(text, "-")
        body   == IF neg THEN SubSeq(text, 2, Len(text)) ELSE text
        dots   == { i \in 1..Len(body) : SubSeq(body, i, i) = "." }
        dot    == IF dots = {} THEN Len(body) + 1 ELSE CHOOSE i \in dots : TRUE
        whole  == Natural(SubSeq(body, 1, dot - 1))
        frac   == SubSeq(body, dot + 1, Len(body))
        padded == SubSeq(frac \o "000", 1, 3)
        abs    == whole * 1000 + Natural(padded)
    IN  IF neg THEN -abs ELSE abs

\* The leaves of the reference taxonomy in the order the class bodies declare them.
DeclarationOrder ==
    << "left hip roll", "left hip yaw", "left hip pitch",
       "left knee pitch", "left ankle pitch", "left ankle roll",
       "right hip roll", "right hip yaw", "right hip pitch",
       "right knee pitch", "right ankle pitch", "right ankle roll" >>

\* The same leaves, each leg's in ascending order of the attribute names
\* (ankle_pitch, ankle_roll, hip_pitch, hip_roll, hip_yaw, knee_pitch).
AttributeNameOrder ==
    << "left ankle pitch", "left ankle roll", "left hip pitch",
       "left hip roll", "left hip yaw", "left knee pitch",
       "right ankle pitch", "right ankle roll", "right hip pitch",
       "right hip roll", "right hip yaw", "right knee pitch" >>

\* C1 as stated: every call of Stompy.all_joints() on the reference taxonomy
\* returns the leaves in declaration order (left hip roll, left hip yaw, left
\* hip pitch, left knee pitch, left ankle pitch, left ankle roll, then the right
\* leg's), the same sequence on every call.
C1_DeclarationOrder ==
    defn = "reference" =>
        \A i \in 1..Len(returned) : returned[i] = DeclarationOrder

\* C1 amended: every call of Stompy.all_joints() returns the leaves depth-first
\* with each class's attributes in ascending attribute-name order (dir() sorts
\* them), so on the reference taxonomy left ankle pitch, left ankle roll, left hip
\* pitch, left hip roll, left hip yaw, left knee pitch, then the same six of the
\* right leg; and any two calls on the same taxonomy return the same sequence.
C1_AttributeNameOrder ==
    /\ defn = "reference" =>
           \A i \in 1..Len(returned) : returned[i] = AttributeNameOrder
    /\ \A i, j \in 1..Len(returned) : returned[i] = returned[j]

\* all_joints() has been called twice on the reference taxonomy.
C1_CalledTwice == defn = "reference" /\ Len(returned) = 2

\* C2: on the reference taxonomy every list Stompy.all_joints() returns has 12
\* entries, all different, and NUM_JOINTS is bound to 12.
C2_TwelveDistinct ==
    defn = "reference" =>
        /\ \A i \in 1..Len(returned) :
              /\ Len(returned[i]) = 12
              /\ Cardinality(Range(returned[i])) = 12
        /\ NUM_JOINTS \in {-1, 12}

\* only_legs_config has bound NUM_JOINTS from the reference taxonomy.
C2_NumJointsBound ==
    defn = "reference" /\ NUM_JOINTS = 12 /\ Len(returned) >= 1

\* Two leaves of the loaded definition share an identifier after flattening.
DuplicateLeaves(d) ==
    Cardinality(Range(StompyJoints[d])) < Len(StompyJoints[d])

\* C3 as stated: a taxonomy two of whose leaves share an identifier is never
\* constructed: loading it fails with a DuplicateJointError before anything
\* flattens or uses it.
C3_DuplicatesRejectedAtConstruction ==
    (DuplicateLeaves(defn) /\ (loaded \/ returned # << >> \/ robot_fixed # << >>))
        => raised = "DuplicateJointError"

\* Every joint of the flattened list has one entry in the default pose and one
\* in the travel limits, contains exactly one key of each category table, and has
\* lower_limit <= default_angle <= upper_limit.
Resolves(d) ==
    \A i \in 1..Len(StompyJoints[d]) :
        LET j == StompyJoints[d][i]
        IN  /\ Cardinality({k \in 1..Len(default_standing(d)) :
                                default_standing(d)[k][1] = j}) = 1
            /\ Cardinality({k \in 1..Len(default_limits(d)) :
                                default_limits(d)[k][1] = j}) = 1
            /\ \A table \in {stiffness, damping, effort, velocity, friction} :
                   Len(Matches(table, j)) = 1
            /\ Get(default_limits(d), j).lower.m <= Get(default_standing(d), j).m
            /\ Get(default_standing(d), j).m <= Get(default_limits(d), j).upper.m

ResolvesOf == [d \in Definitions |-> Resolves(d)]

\* C4: every joint of the reference taxonomy has one entry in the default pose
\* and one in the travel limits, contains exactly one key of each category table,
\* and has lower_limit <= default_angle <= upper_limit.
C4_ReferenceResolves == defn = "reference" => ResolvesOf[defn]

\* A joint of the reference taxonomy has been resolved by the URDF rewrite:
\* its limits and its friction were looked up and written.
C4_JointResolved ==
    /\ defn = "reference" /\ pc = "done"
    /\ \E i \in 1..Len(robot_fixed) :
          /\ robot_fixed[i].name = "left ankle roll"
          /\ robot_fixed[i].limit.present /\ robot_fixed[i].dynamics.present
          /\ robot_fixed[i].limit.lower = "0.75"
          /\ robot_fixed[i].dynamics.friction = "0.1"

\* The rewritten element i against the element read: a joint outside the
\* flattened list is fixed and otherwise untouched; a listed joint keeps its type,
\* its <limit> (if it has one) carries the joint's own travel limits and its
\* category's effort and velocity, its <dynamics> (if it has one) its category's
\* friction.  A category value is compared where the name has one category.
RewrittenAsResolved(d, old, new) ==
    LET listed == old.name \in Range(StompyJoints[d])
        lims   == Get(default_limits(d), old.name)
        One(table) == Len(Matches(table, old.name)) = 1
        Of(table)  == Matches(table, old.name)[1][2].m
    IN  /\ new.name = old.name
        /\ new.limit.present = old.limit.present
        /\ new.dynamics.present = old.dynamics.present
        /\ ~listed => /\ new.type = "fixed"
                      /\ new.limit = old.limit
                      /\ new.dynamics = old.dynamics
        /\ listed =>
              /\ new.type = old.type
              /\ new.limit.present =>
                    /\ Value(new.limit.lower) = lims.lower.m
                    /\ Value(new.limit.upper) = lims.upper.m
                    /\ One(effort) => Value(new.limit.effort) = Of(effort)
                    /\ One(velocity) => Value(new.limit.velocity) = Of(velocity)
              /\ new.dynamics.present =>
                    (One(friction) => Value(new.dynamics.friction) = Of(friction))

\* C6 as stated: where a joint name contains more than one key of a table, every
\* category lookup (kp and kd in run_id_test; effort, velocity and friction in
\* update_urdf) yields the value of the first matching key in table order.
C6_FirstMatchWins ==
    /\ joint_name # "" =>
          /\ Matches(stiffness, joint_name) # << >> =>
                kp = Matches(stiffness, joint_name)[1][2]
          /\ Matches(damping, joint_name) # << >> =>
                kd = Matches(damping, joint_name)[1][2]
    /\ (script = "create_fixed_torso" /\ pc = "done") =>
          \A i \in 1..Len(robot_fixed) :
              LET new == robot_fixed[i]
                  First(table) == Matches(table, new.name)[1][2].m
              IN  new.name \in Range(StompyJoints[defn]) =>
                      /\ (new.limit.present /\ Matches(effort, new.name) # << >>) =>
                            Value(new.limit.effort) = First(effort)
                      /\ (new.limit.present /\ Matches(velocity, new.name) # << >>) =>
                            Value(new.limit.velocity) = First(velocity)
                      /\ (new.dynamics.present /\ Matches(friction, new.name) # << >>) =>
                            Value(new.dynamics.friction) = First(friction)

\* C10: update_urdf sets type "fixed" on exactly the joints that are not in the
\* flattened joint list, and for every listed joint the lower, upper, effort,
\* velocity and friction it writes are the joint's resolved values (limits by
\* exact name; effort, velocity, friction by the joint's category).
C10_UrdfMatchesResolve ==
    (script = "create_fixed_torso" /\ pc = "done") =>
        /\ Len(robot_fixed) = Len(urdf)
        /\ \A i \in 1..Len(urdf) : RewrittenAsResolved(defn, urdf[i], robot_fixed[i])

\* A revolute joint of the list was rewritten with new limit and friction values.
C10_ListedJointRewritten ==
    /\ script = "create_fixed_torso" /\ pc = "done"
    /\ \E i \in 1..Len(urdf) :
          /\ urdf[i].name = "left hip pitch" /\ urdf[i].type = "revolute"
          /\ urdf[i].limit.present /\ urdf[i].dynamics.present
          /\ robot_fixed[i].type = "revolute"
          /\ robot_fixed[i].limit = [present |-> TRUE, lower |-> "-2.2", upper |-> "-0.2",
                                     effort |-> "150", velocity |-> "40"]
          /\ robot_fixed[i].dynamics.friction = "0.0"

\* C7: pd_control(target_q, q, kp, dq, kd, default) returns
\* kp * (target_q + default - q) - kd * dq, unclamped; (0,0,100,0,10,0) gives 0,
\* (1,0,100,0,10,0) gives 100 and (0,0,100,2,10,0) gives -20.
C7_ControlLaw ==
    pc = "pd_returned" =>
        /\ pd_out = pd_args[3] * pd_args[1] + pd_args[3] * pd_args[6]
                    - pd_args[3] * pd_args[2] - pd_args[5] * pd_args[4]
        /\ pd_args = <<0, 0, 100, 0, 10, 0>> => pd_out = 0
        /\ pd_args = <<1, 0, 100, 0, 10, 0>> => pd_out = 100
        /\ pd_args = <<0, 0, 100, 2, 10, 0>> => pd_out = -20
        /\ pd_args = <<0, 1, 250, 0, 0, -1>> => pd_out = -500

\* The law has returned a torque beyond any actuator limit of the program (18).
C7_Unclamped ==
    pc = "pd_returned" /\ pd_args = <<1, 0, 100, 0, 10, 0>> /\ pd_out = 100

(***************************************************************************)
(* Properties of the calibration driver and of run_id_test                 *)
(***************************************************************************)

\* The joint name contains no key of the table.
Uncategorised(table, joint) == Matches(table, joint) = << >>

\* C5 as stated: a joint whose name contains no known category is not
\* calibrated and not rewritten with defaults: its resolution fails with an
\* UnknownJointCategoryError, in run_id_test's gain lookup and in update_urdf.
C5_UnknownCategoryRaises ==
    /\ (joint_name # "" /\ (Uncategorised(stiffness, joint_name)
                            \/ Uncategorised(damping, joint_name))) =>
          /\ raised = "UnknownJointCategoryError"
          /\ pc = "failed"
    /\ (script = "create_fixed_torso" /\ pc = "done") =>
          \A i \in 1..Len(urdf) :
              (/\ urdf[i].name \in Range(StompyJoints[defn])
               /\ \/ Uncategorised(effort, urdf[i].name)
                  \/ Uncategorised(velocity, urdf[i].name)
                  \/ Uncategorised(friction, urdf[i].name))
                  => raised = "UnknownJointCategoryError"

\* The categories main's loop body names.
Excluded(joint) ==
    \/ Contains("shoulder", joint)
    \/ Contains("elbow", joint)
    \/ Contains("wrist", joint)
    \/ Contains("ankle", joint)

\* The flattened list without the joints of an excluded category, of each
\* definition.
ToCalibrate ==
    [d \in Definitions |-> SelectSeq(StompyJoints[d], LAMBDA j : ~Excluded(j))]

\* C8 as stated: the driver calls run_id_test for the joints that are in none of
\* the categories shoulder, elbow, wrist, ankle, in all_joints() order, once
\* each, and for no ankle joint: on the reference taxonomy the hip and knee
\* joints.
C8_CalibratesAllButExcluded ==
    (defn = "reference" /\ MODE = "calibration") =>
        /\ Len(calibrated) <= Len(ToCalibrate[defn])
        /\ calibrated = SubSeq(ToCalibrate[defn], 1, Len(calibrated))
        /\ pc = "exit" => calibrated = ToCalibrate[defn]

\* C9: in a sin_id run (steps = 10000, decimation = 5) nothing is recorded in
\* the 100 Settle ticks, every Track tick appends one sample to each of the step,
\* position and velocity series, and the series saved at Done have equal length
\* 10000 - 100 = 9900.
C9_TickBudget ==
    MODE = "sin_id" =>
        /\ pc = "settle" =>
              /\ step < SettleTicks
              /\ time_data.len = 0 /\ position_data.len = 0 /\ velocity_data.len = 0
        /\ pc \in {"track", "track_sub"} =>
              /\ step >= SettleTicks
              /\ time_data.len = step - SettleTicks
              /\ position_data.len = step - SettleTicks
              /\ velocity_data.len = step - SettleTicks
              /\ step > SettleTicks => time_data.last = step - 1
        /\ \A i \in 1..Len(files) :
              /\ files[i].step.len = 9900
              /\ files[i].step.len = steps - SettleTicks
              /\ files[i].position.len = files[i].step.len
              /\ files[i].velocity.len = files[i].step.len
              /\ files[i].step.last = steps - 1

\* A sin_id run has left Settle after its 100 ticks and has recorded the samples
\* of its first two Track ticks.
C9_TrackRecording ==
    /\ MODE = "sin_id" /\ decimation = 5 /\ steps = 10000
    /\ pc = "track" /\ sim_alive
    /\ step = SettleTicks + 2
    /\ time_data = [len |-> 2, last |-> 101]
    /\ position_data.len = 2 /\ velocity_data.len = 2

(***************************************************************************)
(* Properties of the static sweep (mode "calibration")                     *)
(***************************************************************************)

\* The physics steps of one whole sweep run: the warm-up, then decimation per
\* tick of both sweep loops.
SweepRunSteps == WarmupSteps + 2 * SweepTicks * decimation

\* The torque tensor with the given torque on the run's joint and zero elsewhere.
SweepCommand(torque) ==
    [j \in Columns(defn) |->
        IF j = joint_name THEN Constant(PyInt(torque)) ELSE Constant(PyInt(0))]

\* The trace a finished sweep run saved: 2 * steps/40 samples of the run's joint,
\* the k-th read after the k-th tick of the run (the High ticks, then the Low).
SweepTrace(file, joint, base) ==
    /\ file.file = joint \o "_calibration.npz"
    /\ Len(file.positions) = 2 * SweepTicks
    /\ \A k \in 1..Len(file.positions) :
          /\ file.positions[k].what = "pos"
          /\ file.positions[k].joint = joint
          /\ file.positions[k].read_at = base + WarmupSteps + k * decimation

\* C11: a static sweep run is RampHigh, then RampLow, then Done, once each:
\* steps/40 = 250 ticks with +TORQUE_SOFT commanded on the run's joint and zero
\* on every other, then 250 ticks with -TORQUE_SOFT; one position sample of the
\* joint per tick; at Done the saved trace is the 250 High samples followed by
\* the 250 Low samples, and after it the run steps, commands and samples no more
\* (the physics steps made are exactly those of the finished runs).
C11_StaticSweep ==
    MODE = "calibration" =>
        LET done == Len(files)
            base == done * SweepRunSteps
        IN  /\ SweepTicks = 250
            /\ pc = "warmup" =>
                  /\ Len(calibrated) = done + 1
                  /\ positions = << >> /\ step = 0
                  /\ sim_steps = base + sub
            /\ pc = "high" =>
                  /\ Len(calibrated) = done + 1
                  /\ step <= SweepTicks /\ sub <= decimation
                  /\ Len(positions) = step
                  /\ sim_steps = base + WarmupSteps + step * decimation + sub
                  /\ (step > 0 \/ sub > 0) =>
                        /\ torques = SweepCommand(TORQUE_SOFT)
                        /\ applied = torques
            /\ pc = "low" =>
                  /\ Len(calibrated) = done + 1
                  /\ step <= SweepTicks /\ sub <= decimation
                  /\ Len(positions) = SweepTicks + step
                  /\ sim_steps = base + WarmupSteps
                                  + (SweepTicks + step) * decimation + sub
                  /\ applied = torques
                  /\ torques = IF step > 0 \/ sub > 0
                               THEN SweepCommand(-TORQUE_SOFT)
                               ELSE SweepCommand(TORQUE_SOFT)
            /\ pc \in {"loop", "exit"} =>
                  /\ Len(calibrated) = done
                  /\ sim_steps = base
                  /\ done > 0 =>
                        /\ applied = SweepCommand(-TORQUE_SOFT)
                        /\ files[done].positions = positions
                        /\ SweepTrace(files[done], calibrated[done],
                                      (done - 1) * SweepRunSteps)

\* A sweep run has reached Done: its trace of 500 samples is saved and main is
\* back in its loop.
C11_SweepSaved ==
    /\ MODE = "calibration" /\ defn = "reference"
    /\ pc = "loop"
    /\ Len(files) = 1
    /\ files[1].file = "left ankle pitch_calibration.npz"
    /\ Len(files[1].positions) = 500
    /\ sim_steps = 2600

(***************************************************************************)
(* Properties of the control tick                                          *)
(***************************************************************************)

\* C12 as stated: in both modes a control tick is decimation (5) times one
\* torque command followed by one physics sub-step, so when the sub-steps of a
\* tick are done the simulator has been stepped exactly decimation times since
\* the previous sample was taken: in the High and Low ticks of a sweep and in
\* the Track ticks of a sinusoidal identification run.
C12_DecimationPerTick ==
    /\ (pc \in {"high", "low"} /\ sub = decimation /\ Len(positions) >= 1) =>
          sim_steps - positions[Len(positions)].read_at = decimation
    /\ (pc = "track_sub" /\ sub = decimation /\ position_data.len >= 1) =>
          sim_steps - position_data.last.read_at = decimation

(***************************************************************************)
(* Properties of the torques of a Track sub-step                           *)
(***************************************************************************)

\* Each reference joint's own gains: the value of the first key of the
\* stiffness and of the damping table that its name contains.
OwnKp == [j \in Columns("reference") |-> AssignFirstMatch(stiffness, j, PyInt(250)).m]
OwnKd == [j \in Columns("reference") |-> AssignFirstMatch(damping, j, PyInt(10)).m]

\* C13 as stated: in a Track sub-step the torque of every joint j before the
\* clip is the control law on target_q = sin_pos for the run's joint and 0 for
\* every other joint, default = joint j's own default standing angle (for the
\* run's joint too), the (q, dq) read for joint j, and joint j's own kp and kd.
C13_OwnLawPerJoint ==
    (pc = "track_torques" /\ defn = "reference") =>
        \A j \in Columns(defn) :
            set_torques[j] =
                pd_control(IF j = joint_name THEN sin_pos ELSE 0,
                           DofPos(j), OwnKp[j], DofVel(j), OwnKd[j],
                           StandingPositions[defn][j].m)

\* The torque limit, in millionths.
TorqueLimit == PyInt(torque_limits).m * 1000

\* C14: in sin_id every torque written to the simulator, of every joint and in
\* every sub-step of Track, is within [-torque_limits, torque_limits] = [-18, 18]
\* whatever the gains, the reference and the measured state are: it is the
\* control law's result where that is within the limits, and the nearer limit
\* where it is not (the control law does not bound its result).
C14_TorquesClipped ==
    (MODE = "sin_id" /\ set_torques # << >>) =>
        /\ \A j \in DOMAIN applied :
              /\ applied[j] >= -18000000 /\ applied[j] <= 18000000
              /\ applied[j] >= -TorqueLimit /\ applied[j] <= TorqueLimit
        /\ pc = "track_applied" =>
              \A j \in DOMAIN applied :
                  /\ applied[j] = torques[j]
                  /\ set_torques[j] > TorqueLimit => applied[j] = TorqueLimit
                  /\ set_torques[j] < -TorqueLimit => applied[j] = -TorqueLimit
                  /\ (set_torques[j] >= -TorqueLimit /\ set_torques[j] <= TorqueLimit)
                        => applied[j] = set_torques[j]

\* A sub-step has written its torques: the control law gave one joint more than
\* the limit and another less than its negative, and both were written at the
\* limit; a third joint's torque was within the limits and written as it was.
C14_LimitReached ==
    /\ MODE = "sin_id" /\ pc = "track_applied"
    /\ \E j \in DOMAIN applied :
          set_torques[j] > TorqueLimit /\ applied[j] = 18000000
    /\ \E j \in DOMAIN applied :
          set_torques[j] < -TorqueLimit /\ applied[j] = -18000000
    /\ \E j \in DOMAIN applied :
          set_torques[j] # 0 /\ applied[j] = set_torques[j]

(***************************************************************************)
(* Properties of the sensor reads                                          *)
(***************************************************************************)

\* A value that was read from the simulator's dof state tensor, filled from the
\* simulation no longer ago than the physics steps of one control tick.
Fresh(r) ==
    /\ r.what \in {"pos", "vel"}
    /\ r.filled_at >= 0
    /\ r.read_at - r.filled_at <= decimation

\* C15 as stated: every sensor value used in a tick was read from the simulator
\* and reflects the previous tick's torque command and physics step or a later
\* one: the (q, dq) given to the control law in every Track sub-step, and the
\* position and velocity recorded as a tick's sample in either mode.
C15_ReadingsFresh ==
    /\ \A j \in DOMAIN torques :
          torques[j].law = "pd_control" =>
              /\ Fresh(torques[j].args[2])
              /\ Fresh(torques[j].args[4])
    /\ Len(positions) >= 1 => Fresh(positions[Len(positions)])
    /\ position_data.len >= 1 => Fresh(position_data.last)
    /\ velocity_data.len >= 1 => Fresh(velocity_data.last)

(***************************************************************************)
(* Properties of the simulation's lifetime across main's loop              *)
(***************************************************************************)

\* A run has reached Done and released the viewer and the simulation.
Released == ~sim_alive /\ ~viewer_alive /\ Len(files) > 0

\* C16 as stated: main's loop makes successive run_id_test calls on one
\* GymParams, and once a run has released the viewer and the simulation no
\* simulator operation is issued again, in either mode and with several joints
\* calibrated in one process: after the release the program is in main's loop,
\* has left it, or has entered a run that has not yet made a simulator call; no
\* call has been made on the released simulation, whether it returned or ended
\* the process.
C16_NoUseAfterRelease ==
    /\ pc # "crashed"
    /\ Released =>
          \/ pc \in {"loop", "exit"}
          \/ pc = "settle" /\ step = 0
          \/ pc = "warmup" /\ sub = 0
====
